---------------------------- MODULE Spec2Model ----------------------------
(***************************************************************************)
(* Model of app_simple.py: the schedule file and the device config file,   *)
(* the three API handlers that read and write them, and the JSON           *)
(* serialisation through which every document passes on its way to and     *)
(* from disk.                                                              *)
(*                                                                         *)
(* A JSON value is a record with the same four fields for every kind, so   *)
(* that any two values compare.  A file is a sequence of JSON tokens; the  *)
(* whitespace json.dump(indent=2) puts between tokens is not modelled.     *)
(***************************************************************************)
EXTENDS Naturals, Sequences, FiniteSets

\* ------------------------------------------------------------ bounds ----
\* Longest schedules list in the documents a client posts or a file holds.
MaxSchedules == 2
\* Longest serialisation (in tokens) of a document posted by one of the two
\* concurrent clients.
MaxConcLen == 9

\* ------------------------------------------------------- JSON values ----
\* Python None / True / False / str / float / list / dict as json knows them.
Null == [t |-> "null", s |-> "", keys |-> <<>>, items |-> <<>>]
True == [t |-> "true", s |-> "", keys |-> <<>>, items |-> <<>>]
False == [t |-> "false", s |-> "", keys |-> <<>>, items |-> <<>>]
Str(x) == [t |-> "str", s |-> x, keys |-> <<>>, items |-> <<>>]
Num(x) == [t |-> "num", s |-> x, keys |-> <<>>, items |-> <<>>]
List(xs) == [t |-> "list", s |-> "", keys |-> <<>>, items |-> xs]
\* A dict keeps its keys in insertion order: keys[i] maps to items[i].
Dict(ks, xs) == [t |-> "dict", s |-> "", keys |-> ks, items |-> xs]

\* isinstance(v, dict)
IsDict(v) == v.t = "dict"
\* k in v, for a dict v
HasKey(v, k) == \E i \in DOMAIN v.keys : v.keys[i] = k
\* v[k], for a dict v that has k
GetKey(v, k) == v.items[CHOOSE i \in DOMAIN v.keys : v.keys[i] = k]
\* v[k] = x: an existing key keeps its place, a new key goes last.
SetKey(v, k, x) ==
    IF HasKey(v, k)
    THEN Dict(v.keys, [i \in DOMAIN v.items |-> IF v.keys[i] = k THEN x ELSE v.items[i]])
    ELSE Dict(Append(v.keys, k), Append(v.items, x))

\* ------------------------------------------------------------ tokens ----
Tok(k, x) == [k |-> k, s |-> x]
LBrace == Tok("punct", "{")
RBrace == Tok("punct", "}")
LBrack == Tok("punct", "[")
RBrack == Tok("punct", "]")
Colon == Tok("punct", ":")
Comma == Tok("punct", ",")
\* A position of the file no write has filled (a hole reads as NUL bytes).
Nul == Tok("nul", "")

RECURSIVE Ser(_)
RECURSIVE SerElements(_, _)
RECURSIVE SerMembers(_, _)
\* json.dump: the token sequence of a value.
Ser(v) ==
    CASE v.t = "null" -> <<Tok("lit", "null")>>
      [] v.t = "true" -> <<Tok("lit", "true")>>
      [] v.t = "false" -> <<Tok("lit", "false")>>
      [] v.t = "str" -> <<Tok("str", v.s)>>
      [] v.t = "num" -> <<Tok("num", v.s)>>
      [] v.t = "list" -> <<LBrack>> \o SerElements(v.items, 1) \o <<RBrack>>
      [] v.t = "dict" -> <<LBrace>> \o SerMembers(v, 1) \o <<RBrace>>
SerElements(xs, i) ==
    IF i > Len(xs) THEN <<>>
    ELSE Ser(xs[i]) \o (IF i < Len(xs) THEN <<Comma>> ELSE <<>>) \o SerElements(xs, i + 1)
SerMembers(v, i) ==
    IF i > Len(v.keys) THEN <<>>
    ELSE <<Tok("str", v.keys[i]), Colon>> \o Ser(v.items[i])
         \o (IF i < Len(v.keys) THEN <<Comma>> ELSE <<>>) \o SerMembers(v, i + 1)

\* Result of a parse: ok, the value, and the position after it.
Fail == [ok |-> FALSE, val |-> Null, pos |-> 0]
Done(v, p) == [ok |-> TRUE, val |-> v, pos |-> p]
At(toks, i) == IF i \in DOMAIN toks THEN toks[i] ELSE Nul

RECURSIVE ParseValue(_, _)
RECURSIVE ParseElements(_, _, _)
RECURSIVE ParseMembers(_, _, _)
\* json's decoder: one value starting at position i.
ParseValue(toks, i) ==
    LET tok == At(toks, i) IN
    CASE tok = Tok("lit", "null") -> Done(Null, i + 1)
      [] tok = Tok("lit", "true") -> Done(True, i + 1)
      [] tok = Tok("lit", "false") -> Done(False, i + 1)
      [] tok.k = "str" -> Done(Str(tok.s), i + 1)
      [] tok.k = "num" -> Done(Num(tok.s), i + 1)
      [] tok = LBrack -> IF At(toks, i + 1) = RBrack THEN Done(List(<<>>), i + 2)
                         ELSE ParseElements(toks, i + 1, <<>>)
      [] tok = LBrace -> IF At(toks, i + 1) = RBrace THEN Done(Dict(<<>>, <<>>), i + 2)
                         ELSE ParseMembers(toks, i + 1, Dict(<<>>, <<>>))
      [] OTHER -> Fail
ParseElements(toks, i, acc) ==
    LET r == ParseValue(toks, i) IN
    IF ~r.ok THEN Fail
    ELSE IF At(toks, r.pos) = Comma THEN ParseElements(toks, r.pos + 1, Append(acc, r.val))
    ELSE IF At(toks, r.pos) = RBrack THEN Done(List(Append(acc, r.val)), r.pos + 1)
    ELSE Fail
\* A repeated key keeps its first place and takes the last value, as a dict
\* built from the pairs does.
ParseMembers(toks, i, acc) ==
    IF At(toks, i).k # "str" \/ At(toks, i + 1) # Colon THEN Fail
    ELSE LET r == ParseValue(toks, i + 2) IN
         IF ~r.ok THEN Fail
         ELSE LET d == SetKey(acc, At(toks, i).s, r.val) IN
              IF At(toks, r.pos) = Comma THEN ParseMembers(toks, r.pos + 1, d)
              ELSE IF At(toks, r.pos) = RBrace THEN Done(d, r.pos + 1)
              ELSE Fail
\* json.load of a whole file: one value and nothing after it
\* (raises JSONDecodeError otherwise: ok = FALSE).
Parse(toks) ==
    LET r == ParseValue(toks, 1) IN
    IF r.ok /\ r.pos = Len(toks) + 1 THEN r ELSE Fail


\* --------------------------------------------------------- documents ----
\* The fixed placeholder timestamp of both metadata blocks.
PlaceholderTime == "2025-07-25T21:30:00.000000"
\* The metadata block written by the legacy conversion and by the default.
Metadata ==
    Dict(<<"version", "created_at", "updated_at">>,
         <<Str("1.0"), Str(PlaceholderTime), Str(PlaceholderTime)>>)
\* default_data of load_schedules.
DefaultData ==
    Dict(<<"schedules", "metadata">>,
         <<List(<<Dict(<<"id", "event_name", "schedule_type", "repeat_frequency",
                         "time_setting", "start_time", "end_time", "settings",
                         "days_of_week", "is_default", "exclude_dates">>,
                       <<Str("unoccupied-default"), Str("Unoccupied"), Str("thermostat"),
                         Str("daily"), Str("all_day"), Null, Null,
                         Dict(<<"system_mode", "heat_setpoint", "cool_setpoint", "fan",
                                "humidity_setpoint", "ventilation_rate">>,
                              <<Str("Heat"), Str("65"), Str("78"), Str("auto"),
                                Str("45"), Str("0")>>),
                         List(<<>>), True, List(<<>>)>>)>>),
           Metadata>>)
\* The default configuration of get_device_config.
DefaultConfig ==
    Dict(<<"device">>,
         <<Dict(<<"timezone", "location", "id", "name">>,
                <<Str("America/New_York"),
                  Dict(<<"name", "latitude", "longitude">>,
                       <<Str("Default Location"), Num("40.7128"), Num("-74.006")>>),
                  Str("hvac-device-default"), Str("HVAC Controller")>>)>>)

\* Single schedules as a client writes them: one without id, one whose id
\* sits between other fields.
Morning == Dict(<<"event_name", "schedule_type">>, <<Str("Morning"), Str("thermostat")>>)
Evening == Dict(<<"event_name", "id", "is_default">>, <<Str("Evening"), Str("7"), False>>)
Schedules == {Morning, Evening}
SeqsUpTo(S, n) == UNION {[1..k -> S] : k \in 0..n}
\* Documents of the current shape.
Envelopes ==
    {Dict(<<"schedules", "metadata">>, <<List(ss), Metadata>>) : ss \in SeqsUpTo(Schedules, MaxSchedules)}
\* Every other shape json can hold: schedules without metadata, schedules
\* next to event_name, a mapping with neither key, and values that are no
\* mapping at all.
OtherShapes ==
    { Dict(<<"schedules">>, <<List(<<Morning>>)>>),
      Dict(<<"event_name", "schedules">>, <<Str("Night"), Str("none")>>),
      Dict(<<"foo">>, <<Str("bar")>>),
      Dict(<<>>, <<>>),
      List(<<Str("event_name")>>),
      Str("schedules"),
      Null }
\* The JSON values a schedule file or a request body can hold.
Docs == Envelopes \cup Schedules \cup OtherShapes \cup {DefaultData}
\* Contents that are not one JSON value: an empty file, a truncated
\* object, two values, a hole.
Malformed ==
    { <<>>,
      <<LBrace, Tok("str", "event_name"), Colon>>,
      <<Tok("lit", "null"), Tok("lit", "null")>>,
      <<Nul>> }
\* A JSON text with a repeated key.
Repeated ==
    <<LBrace, Tok("str", "event_name"), Colon, Tok("str", "a"), Comma,
      Tok("str", "event_name"), Colon, Tok("str", "b"), RBrace>>
Texts == {Ser(d) : d \in Docs} \cup Malformed \cup {Repeated}
\* The configurations a device config file can hold.
Configs == {DefaultConfig, Dict(<<"device">>, <<Dict(<<"timezone">>, <<Str("Europe/Paris")>>)>>)}

\* A file of the working directory: absent, or present with its tokens.
Absent == [exists |-> FALSE, data |-> <<>>]
File(toks) == [exists |-> TRUE, data |-> toks]

\* ------------------------------------------------------------- state ----
VARIABLES
    schedules_file,  \* user_schedule_recipe.json (SCHEDULES_FILE)
    device_file,     \* device_config.json
    resp,            \* the last response: status and the value given to jsonify
    lastOp,          \* the handler that produced resp
    preFile,         \* schedules_file before that handler ran
    preDevice,       \* device_file before that handler ran
    reqBody,         \* the body of the last POST
    pc,              \* concurrent POSTs: where each request stands
    reqDoc,          \* concurrent POSTs: the document of each request
    pos,             \* concurrent POSTs: the offset of each open file object
    overlapped,      \* concurrent POSTs: one opened the file while the other had it open
    closeOrder       \* concurrent POSTs: the requests in the order they closed the file

vars == <<schedules_file, device_file, resp, lastOp, preFile, preDevice, reqBody,
          pc, reqDoc, pos, overlapped, closeOrder>>
seqVars == <<schedules_file, device_file, resp, lastOp, preFile, preDevice, reqBody>>
concVars == <<pc, reqDoc, pos, overlapped, closeOrder>>

Clients == {1, 2}

\* ---------------------------------------------------------- the code ----
\* Variant: content.setdefault('id', '1') in place of content['id'] = '1'.
normalize_setdefault(content) ==
    IF IsDict(content) /\ ~HasKey(content, "schedules") /\ HasKey(content, "event_name")
    THEN Dict(<<"schedules", "metadata">>,
              <<List(<<IF HasKey(content, "id") THEN content
                       ELSE SetKey(content, "id", Str("1"))>>), Metadata>>)
    ELSE content
\* Variant: the test for event_name left out.
normalize_any_dict(content) ==
    IF IsDict(content) /\ ~HasKey(content, "schedules")
    THEN Dict(<<"schedules", "metadata">>,
              <<List(<<SetKey(content, "id", Str("1"))>>), Metadata>>)
    ELSE content
\* Variant: the schedules of a document of the current shape get an id too.
normalize_reassign_ids(content) ==
    IF IsDict(content) /\ ~HasKey(content, "schedules") /\ HasKey(content, "event_name")
    THEN Dict(<<"schedules", "metadata">>,
              <<List(<<SetKey(content, "id", Str("1"))>>), Metadata>>)
    ELSE IF IsDict(content) /\ HasKey(content, "schedules")
    THEN SetKey(content, "schedules",
                LET ss == GetKey(content, "schedules") IN
                [ss EXCEPT !.items = [i \in DOMAIN ss.items |->
                    IF IsDict(ss.items[i]) /\ ~HasKey(ss.items[i], "id")
                    THEN SetKey(ss.items[i], "id", Str("1")) ELSE ss.items[i]]])
    ELSE content
\* The conversion inside load_schedules: a dict without schedules but with
\* event_name gets id "1" and is wrapped; anything else is returned as is.
normalize(content) ==
    IF IsDict(content) /\ ~HasKey(content, "schedules") /\ HasKey(content, "event_name")
    THEN Dict(<<"schedules", "metadata">>,
              <<List(<<SetKey(content, "id", Str("1"))>>), Metadata>>)
    ELSE content

\* Variant: only the schedules list of an envelope is written.
save_schedules_list_only(data) ==
    IF IsDict(data) /\ HasKey(data, "schedules") /\ HasKey(data, "metadata")
    THEN File(Ser(GetKey(data, "schedules")))
    ELSE File(Ser(data))
\* Variant: the document is converted before it is written.
save_schedules_normalized(data) == File(Ser(normalize(data)))
\* save_schedules, start to end: open(.., 'w') and json.dump.
save_schedules(data) == File(Ser(data))

\* Variant: the default document is returned without being saved.
load_schedules_nosave(f) ==
    IF ~f.exists
    THEN [raised |-> FALSE, value |-> DefaultData, file |-> f]
    ELSE LET p == Parse(f.data) IN
         IF ~p.ok
         THEN [raised |-> TRUE, value |-> Null, file |-> f]
         ELSE [raised |-> FALSE, value |-> normalize(p.val), file |-> f]
\* Variant: the converted document is written back.
load_schedules_persist(f) ==
    IF ~f.exists
    THEN [raised |-> FALSE, value |-> DefaultData, file |-> save_schedules(DefaultData)]
    ELSE LET p == Parse(f.data) IN
         IF ~p.ok
         THEN [raised |-> TRUE, value |-> Null, file |-> f]
         ELSE [raised |-> FALSE, value |-> normalize(p.val),
               file |-> save_schedules(normalize(p.val))]
\* Variant: except Exception in place of except FileNotFoundError.
load_schedules_catch_all(f) ==
    IF ~f.exists \/ ~Parse(f.data).ok
    THEN [raised |-> FALSE, value |-> DefaultData, file |-> save_schedules(DefaultData)]
    ELSE [raised |-> FALSE, value |-> normalize(Parse(f.data).val), file |-> f]
\* load_schedules on file f: whether it raised, the value it returned and
\* the file it left.  Only FileNotFoundError is caught.
load_schedules(f) ==
    IF ~f.exists
    THEN [raised |-> FALSE, value |-> DefaultData, file |-> save_schedules(DefaultData)]
    ELSE LET p == Parse(f.data) IN
         IF ~p.ok
         THEN [raised |-> TRUE, value |-> Null, file |-> f]
         ELSE [raised |-> FALSE, value |-> normalize(p.val), file |-> f]

Response(status, body) == [status |-> status, body |-> body]
Error(msg) == Response(500, Dict(<<"error">>, <<Str(msg)>>))
NoResponse == Response(0, Null)
SavedOk == Response(200, Dict(<<"success", "message">>, <<True, Str("Schedules saved successfully")>>))

\* GET /api/schedules
get_schedules ==
    LET r == load_schedules(schedules_file) IN
    /\ schedules_file' = r.file
    /\ resp' = IF r.raised THEN Error("Failed to retrieve schedules")
               ELSE Response(200, r.value)
    /\ lastOp' = "get_schedules"
    /\ preFile' = schedules_file
    /\ preDevice' = device_file
    /\ UNCHANGED <<device_file, reqBody>>
    /\ UNCHANGED concVars

\* POST /api/schedules with the given body: request.get_json() raises on a
\* body that is not JSON, and the handler answers 500 without writing.
save_schedules_data(body) ==
    LET data == Parse(body) IN
    /\ schedules_file' = IF data.ok THEN save_schedules(data.val) ELSE schedules_file
    /\ resp' = IF data.ok THEN SavedOk ELSE Error("Failed to save schedules")
    /\ lastOp' = "save_schedules_data"
    /\ preFile' = schedules_file
    /\ preDevice' = device_file
    /\ reqBody' = body
    /\ UNCHANGED device_file
    /\ UNCHANGED concVars

\* Variant: the default configuration is saved, as load_schedules does.
get_device_config_persist ==
    LET config == Parse(device_file.data) IN
    /\ resp' = IF ~device_file.exists THEN Response(200, DefaultConfig)
               ELSE IF config.ok THEN Response(200, config.val)
               ELSE Error("Failed to get device configuration")
    /\ device_file' = IF ~device_file.exists THEN File(Ser(DefaultConfig)) ELSE device_file
    /\ lastOp' = "get_device_config"
    /\ preFile' = schedules_file
    /\ preDevice' = device_file
    /\ UNCHANGED <<schedules_file, reqBody>>
    /\ UNCHANGED concVars
\* GET /api/device/config
get_device_config ==
    LET config == Parse(device_file.data) IN
    /\ resp' = IF ~device_file.exists THEN Response(200, DefaultConfig)
               ELSE IF config.ok THEN Response(200, config.val)
               ELSE Error("Failed to get device configuration")
    /\ lastOp' = "get_device_config"
    /\ preFile' = schedules_file
    /\ preDevice' = device_file
    /\ UNCHANGED <<schedules_file, device_file, reqBody>>
    /\ UNCHANGED concVars

\* The working directory when the server starts holds whatever was left
\* there; no request has been served.
Init ==
    /\ schedules_file \in {Absent} \cup {File(t) : t \in Texts}
    /\ device_file \in {Absent, File(<<LBrace>>)} \cup {File(Ser(c)) : c \in Configs}
    /\ resp = NoResponse
    /\ lastOp = "none"
    /\ preFile = schedules_file
    /\ preDevice = device_file
    /\ reqBody = <<>>
    /\ pc = [c \in Clients |-> "idle"]
    /\ reqDoc = [c \in Clients |-> Null]
    /\ pos = [c \in Clients |-> 0]
    /\ overlapped = FALSE
    /\ closeOrder = <<>>

\* Requests served one at a time.
Next ==
    \/ get_schedules
    \/ \E body \in Texts : save_schedules_data(body)
    \/ get_device_config

Spec == Init /\ [][Next]_vars

\* ------------------------------------------- two POSTs at the same time ----
\* The server handles each request in a thread of its own and save_schedules
\* takes no lock, so the steps of two saves interleave: open(.., 'w')
\* truncates the file, each write puts the next part of the text at the
\* offset of its own file object, and the buffering decides where the parts
\* end.

\* The documents the two clients post.
ConcDocs == {d \in Docs : Len(Ser(d)) <= MaxConcLen}
Other(c) == CHOOSE o \in Clients : o # c
Max(a, b) == IF a >= b THEN a ELSE b

\* write(2) of chunk at offset off: overwrites what is there, extends the
\* file, and leaves NULs between the old end and off.
WriteAt(data, off, chunk) ==
    [i \in 1..Max(Len(data), off + Len(chunk)) |->
        IF i > off /\ i <= off + Len(chunk) THEN chunk[i - off]
        ELSE IF i <= Len(data) THEN data[i]
        ELSE Nul]

\* save_schedules_data up to the call of save_schedules: the body is parsed.
save_schedules_data_begin(c, d) ==
    /\ pc[c] = "idle"
    /\ pc' = [pc EXCEPT ![c] = "open"]
    /\ reqDoc' = [reqDoc EXCEPT ![c] = d]
    /\ UNCHANGED <<pos, overlapped, closeOrder>>
    /\ UNCHANGED seqVars

\* Variant: the file is opened without being truncated.
save_schedules_open_keep(c) ==
    /\ pc[c] = "open"
    /\ schedules_file' = File(schedules_file.data)
    /\ pos' = [pos EXCEPT ![c] = 0]
    /\ pc' = [pc EXCEPT ![c] = "write"]
    /\ overlapped' = (overlapped \/ pc[Other(c)] = "write")
    /\ UNCHANGED <<reqDoc, closeOrder>>
    /\ UNCHANGED <<device_file, resp, lastOp, preFile, preDevice, reqBody>>
\* open(SCHEDULES_FILE, 'w'): creates or truncates; the offset is 0.
save_schedules_open(c) ==
    /\ pc[c] = "open"
    /\ schedules_file' = File(<<>>)
    /\ pos' = [pos EXCEPT ![c] = 0]
    /\ pc' = [pc EXCEPT ![c] = "write"]
    /\ overlapped' = (overlapped \/ pc[Other(c)] = "write")
    /\ UNCHANGED <<reqDoc, closeOrder>>
    /\ UNCHANGED <<device_file, resp, lastOp, preFile, preDevice, reqBody>>

\* json.dump: the next n tokens of the text reach the file.
save_schedules_write(c, n) ==
    /\ pc[c] = "write"
    /\ n \in 1..(Len(Ser(reqDoc[c])) - pos[c])
    /\ schedules_file' =
         File(WriteAt(schedules_file.data, pos[c], SubSeq(Ser(reqDoc[c]), pos[c] + 1, pos[c] + n)))
    /\ pos' = [pos EXCEPT ![c] = pos[c] + n]
    /\ UNCHANGED <<pc, reqDoc, overlapped, closeOrder>>
    /\ UNCHANGED <<device_file, resp, lastOp, preFile, preDevice, reqBody>>

\* The with block ends once json.dump has written everything; the handler
\* answers.
save_schedules_close(c) ==
    /\ pc[c] = "write"
    /\ pos[c] = Len(Ser(reqDoc[c]))
    /\ pc' = [pc EXCEPT ![c] = "done"]
    /\ closeOrder' = Append(closeOrder, c)
    /\ UNCHANGED <<reqDoc, pos, overlapped>>
    /\ UNCHANGED seqVars

\* A GET once both POSTs have been answered.
get_schedules_after ==
    /\ \A c \in Clients : pc[c] = "done"
    /\ lastOp = "none"
    /\ get_schedules

InitConc ==
    /\ schedules_file \in {Absent, File(Ser(DefaultData)), File(Ser(Evening))}
    /\ device_file = Absent
    /\ resp = NoResponse
    /\ lastOp = "none"
    /\ preFile = schedules_file
    /\ preDevice = device_file
    /\ reqBody = <<>>
    /\ pc = [c \in Clients |-> "idle"]
    /\ reqDoc = [c \in Clients |-> Null]
    /\ pos = [c \in Clients |-> 0]
    /\ overlapped = FALSE
    /\ closeOrder = <<>>

NextConc ==
    \/ \E c \in Clients, d \in ConcDocs : save_schedules_data_begin(c, d)
    \/ \E c \in Clients : save_schedules_open(c)
    \/ \E c \in Clients, n \in 1..MaxConcLen : save_schedules_write(c, n)
    \/ \E c \in Clients : save_schedules_close(c)
    \/ get_schedules_after

SpecConc == InitConc /\ [][NextConc]_vars

\* ------------------------------------------------------------ claims ----
\* What json.load made of the schedule file the last handler found.
Stored == Parse(preFile.data)
\* What request.get_json() made of the body of the last POST.
Posted == Parse(reqBody)
IsLegacy(d) == IsDict(d) /\ HasKey(d, "event_name") /\ ~HasKey(d, "schedules")
HasEnvelope(d) == IsDict(d) /\ HasKey(d, "schedules") /\ HasKey(d, "metadata")
IsValid(d) ==
    /\ HasEnvelope(d)
    /\ GetKey(d, "schedules").t = "list"
    /\ GetKey(d, "metadata").t = "dict"
KeySet(d) == {d.keys[i] : i \in DOMAIN d.keys}
Got == lastOp = "get_schedules"
GotLegacy == Got /\ preFile.exists /\ Stored.ok /\ IsLegacy(Stored.val)

\* C1: a GET that finds a legacy document d in the file (a mapping with
\* event_name and without schedules) answers with a document whose schedules
\* is the one-element list [d with id "1"] (every other field of d kept, an
\* id d already had overwritten) and whose metadata has version "1.0" and the
\* placeholder time as created_at and updated_at.
C1_LegacyWrapped ==
    GotLegacy =>
        /\ resp.status = 200
        /\ HasEnvelope(resp.body)
        /\ LET d == Stored.val
               ss == GetKey(resp.body, "schedules")
               md == GetKey(resp.body, "metadata")
           IN /\ ss.t = "list"
              /\ Len(ss.items) = 1
              /\ IsDict(ss.items[1])
              /\ KeySet(ss.items[1]) = KeySet(d) \cup {"id"}
              /\ Len(ss.items[1].keys) = Cardinality(KeySet(ss.items[1]))
              /\ GetKey(ss.items[1], "id") = Str("1")
              /\ \A k \in KeySet(d) \ {"id"} : GetKey(ss.items[1], k) = GetKey(d, k)
              /\ IsDict(md)
              /\ KeySet(md) = {"version", "created_at", "updated_at"}
              /\ GetKey(md, "version") = Str("1.0")
              /\ GetKey(md, "created_at") = Str(PlaceholderTime)
              /\ GetKey(md, "updated_at") = Str(PlaceholderTime)
\* A GET has served a legacy document that came with an id of its own.
C1_Witness ==
    /\ GotLegacy
    /\ HasKey(Stored.val, "id")
    /\ GetKey(Stored.val, "id") # Str("1")
    /\ Cardinality(KeySet(Stored.val)) > 1

\* C2 as stated: every document a GET returns from a file that a POST wrote
\* has the keys schedules and metadata.
C2_Original ==
    (Got /\ resp.status = 200 /\ Posted.ok /\ preFile = File(Ser(Posted.val))) =>
        HasEnvelope(resp.body)
\* C2 amended: the document a GET returns has the keys schedules and
\* metadata exactly when the file was absent, held a legacy document, or
\* held a document that already had both keys; any other stored value is
\* returned as it is.
C2_EnvelopeWhenLegacyOrShaped ==
    (Got /\ resp.status = 200) =>
        /\ HasEnvelope(resp.body) <=>
              (~preFile.exists \/ IsLegacy(Stored.val) \/ HasEnvelope(Stored.val))
        /\ (preFile.exists /\ ~IsLegacy(Stored.val)) => resp.body = Stored.val
\* A client posted a legacy document and the GET after it returned the
\* envelope.
C2_Witness ==
    /\ GotLegacy
    /\ Posted.ok
    /\ preFile = File(Ser(Posted.val))
    /\ HasEnvelope(resp.body)

\* C3: a GET that finds no schedule file answers with the default document
\* (one schedule, id "unoccupied-default", is_default true) and leaves a
\* file that holds this document, so that the next load returns an equal
\* document.
C3_DefaultCreated ==
    (Got /\ ~preFile.exists) =>
        /\ resp.status = 200
        /\ HasEnvelope(resp.body)
        /\ LET ss == GetKey(resp.body, "schedules") IN
              /\ ss.t = "list"
              /\ Len(ss.items) = 1
              /\ GetKey(ss.items[1], "id") = Str("unoccupied-default")
              /\ GetKey(ss.items[1], "is_default") = True
        /\ schedules_file.exists
        /\ Parse(schedules_file.data).ok
        /\ Parse(schedules_file.data).val = resp.body
        /\ ~load_schedules(schedules_file).raised
        /\ load_schedules(schedules_file).value = resp.body
C3_Witness ==
    /\ Got
    /\ ~preFile.exists
    /\ schedules_file.exists
    /\ resp.status = 200

\* C4: after a POST of a valid document d (schedules a list, metadata a
\* mapping), a load of the file yields a document equal to d.
C4_RoundTrip ==
    (lastOp = "save_schedules_data" /\ Posted.ok /\ IsValid(Posted.val)) =>
        /\ ~load_schedules(schedules_file).raised
        /\ load_schedules(schedules_file).value = Posted.val
\* A valid document with two schedules has been posted over different
\* content.
C4_Witness ==
    /\ lastOp = "save_schedules_data"
    /\ Posted.ok
    /\ IsValid(Posted.val)
    /\ Len(GetKey(Posted.val, "schedules").items) >= 2
    /\ preFile.exists
    /\ preFile # schedules_file

\* C5: a POST of d stores d as it is, whatever the file held: the file then
\* holds exactly the text of d and decodes to d; a legacy d stays legacy in
\* the file.
C5_StoredVerbatim ==
    (lastOp = "save_schedules_data" /\ Posted.ok) =>
        /\ resp = SavedOk
        /\ schedules_file.exists
        /\ schedules_file.data = Ser(Posted.val)
        /\ Parse(schedules_file.data).ok
        /\ Parse(schedules_file.data).val = Posted.val
\* A legacy document has been posted over an envelope.
C5_Witness ==
    /\ lastOp = "save_schedules_data"
    /\ Posted.ok
    /\ IsLegacy(Posted.val)
    /\ preFile.exists
    /\ Stored.ok
    /\ HasEnvelope(Stored.val)

\* C6: a GET that finds the schedule file leaves its content as it was,
\* whatever it holds and also when the answer was converted.
C6_GetKeepsFile ==
    (Got /\ preFile.exists) => schedules_file = preFile
\* A GET has answered with a converted document.
C6_Witness ==
    /\ GotLegacy
    /\ resp.status = 200
    /\ resp.body # Stored.val

\* C7: a GET that finds a mapping with the key schedules returns it
\* unchanged; the entries of schedules are not converted.
C7_ShapedIdentity ==
    (Got /\ preFile.exists /\ Stored.ok /\ IsDict(Stored.val) /\ HasKey(Stored.val, "schedules")) =>
        resp = Response(200, Stored.val)
\* A GET has served an envelope one of whose schedules has no id.
C7_Witness ==
    /\ Got
    /\ preFile.exists
    /\ Stored.ok
    /\ HasEnvelope(Stored.val)
    /\ \E i \in DOMAIN GetKey(Stored.val, "schedules").items :
          ~HasKey(GetKey(Stored.val, "schedules").items[i], "id")

\* C8: a GET that finds a file json cannot decode answers 500 'Failed to
\* retrieve schedules', not the default document, and leaves the file as it
\* was.
C8_MalformedFails ==
    (Got /\ preFile.exists /\ ~Stored.ok) =>
        /\ resp = Error("Failed to retrieve schedules")
        /\ resp.body # DefaultData
        /\ schedules_file = preFile
C8_Witness ==
    /\ Got
    /\ preFile.exists
    /\ ~Stored.ok
    /\ resp.status = 500

\* C9: the device-config GET never changes the schedule file; when the
\* device config file is absent it answers with the default, timezone
\* "America/New_York", and the file is still absent afterwards.
C9_DeviceConfigReadOnly ==
    (lastOp = "get_device_config") =>
        /\ schedules_file = preFile
        /\ ~preDevice.exists =>
              /\ resp.status = 200
              /\ GetKey(GetKey(resp.body, "device"), "timezone") = Str("America/New_York")
              /\ ~device_file.exists
C9_Witness ==
    /\ lastOp = "get_device_config"
    /\ ~preDevice.exists
    /\ ~device_file.exists
    /\ resp.status = 200
    /\ schedules_file.exists

BothDone == \A c \in Clients : pc[c] = "done"
\* The request whose save closed the file last.
LastClosed == closeOrder[Len(closeOrder)]

\* C10 as stated: once two concurrent POSTs of d1 and d2 have completed the
\* file holds exactly d1 or d2, and a GET that follows returns that document.
C10_Original ==
    BothDone =>
        /\ \E c \in Clients : schedules_file = File(Ser(reqDoc[c]))
        /\ Got => \E c \in Clients :
                      /\ schedules_file = File(Ser(reqDoc[c]))
                      /\ resp = Response(200, reqDoc[c])
\* C10 amended: when neither POST opened the file while the other had it
\* open, the file holds exactly the document of the POST that saved last,
\* and a GET that follows returns that document, inside the envelope if it
\* is legacy-shaped.
C10_LastWriteWinsWhenSerial ==
    (BothDone /\ ~overlapped) =>
        /\ schedules_file = File(Ser(reqDoc[LastClosed]))
        /\ Got => /\ resp.status = 200
                  /\ IF IsLegacy(reqDoc[LastClosed])
                     THEN /\ HasEnvelope(resp.body)
                          /\ GetKey(resp.body, "schedules").items
                               = <<SetKey(reqDoc[LastClosed], "id", Str("1"))>>
                     ELSE resp.body = reqDoc[LastClosed]
\* Two different documents were saved one after the other, the shorter one
\* last, and a GET followed.
C10_Witness ==
    /\ BothDone
    /\ ~overlapped
    /\ Got
    /\ reqDoc[1] # reqDoc[2]
    /\ Len(Ser(reqDoc[LastClosed])) < Len(Ser(reqDoc[Other(LastClosed)]))

=============================================================================
